---- MODULE Spec2Model ----
(***************************************************************************)
(* Model of the memoization cache of panel/io/cache.py: compute_hash,      *)
(* cache (the wrapping decorator and its wrapped_func), _cleanup_cache and *)
(* clear_cache, with the per-callable stores of state._memoize_cache.      *)
(*                                                                         *)
(* Reading of the source.  Line 307 of cache.py reads                      *)
(*     else hash_value in func_cache:                                      *)
(* which no Python parser accepts.  It is read as `elif hash_value in      *)
(* func_cache:`; the other possible reading, a separate `if`, behaves the  *)
(* same, because the store created on line 306 is empty.  Everything else  *)
(* follows Python's rules, including the rule for names: a name that is    *)
(* neither a local, nor a variable of an enclosing function, nor a module  *)
(* global, nor a builtin raises NameError when it is read.  That is the    *)
(* case of hash_args, hash_kwargs and hash_funcs in compute_hash (lines    *)
(* 242, 244) and of func_cache and policy in _cleanup_cache (lines         *)
(* 206-218): they are locals of cache/wrapped_func, not visible in the     *)
(* module-level functions that read them.                                  *)
(*                                                                         *)
(* The structural hasher, _generate_hash with _container_hash, is modelled *)
(* as the recursive descent it is, one step per item visited, on values    *)
(* that contain themselves.                                                *)
(***************************************************************************)
EXTENDS Integers, Sequences, FiniteSets, TLC

(***************************************************************************)
(* Bounds of the model.                                                    *)
(***************************************************************************)
MaxCalls == 5        \* calls of wrapped callables and of compute_hash begun
MaxTime == 2         \* largest reading of the monotonic clock
MaxItemsBound == 2   \* largest max_items a wrapper is configured with
NumThreads == 2      \* calling threads
ConcCalls == 3       \* calls begun where threads call concurrently

(***************************************************************************)
(* Inputs.                                                                 *)
(***************************************************************************)
NoneVal == -1                          \* Python's None, where a number may stand
Threads == 1..NumThreads
Funcs == {"f", "g"}                    \* the underlying callables
Wrappers == {"w1", "w2"}               \* results of cache(...)
Policies == {"FIFO", "LRU", "LFU"}
PolicyStrings == Policies \cup {"fifo", "MRU"}   \* what callers pass as policy
NoOverrides == {}                      \* hash_funcs or {}, none given
RaisingOverride == {<<"builtins.int", "raise">>}   \* an override that raises
HashFuncsVals == {NoOverrides, RaisingOverride}
TTL == 1                               \* the ttl of wrappers that set one
MaxItemsVals == {NoneVal} \cup (1..MaxItemsBound)
TTLVals == {NoneVal, TTL}
ArgA == <<1>>
ArgB == <<2>>
ArgC == <<3>>
PosArgs == {<<>>, ArgA, ArgB, ArgC}    \* positional argument tuples
KwArgs == {<<>>, <<<<"x", 1>>>>}       \* keyword mappings, as item sequences
CallInputs == {<<a, k>> \in PosArgs \X KwArgs : a = <<>> \/ k = <<>>}
StoreIds == 1..(Cardinality(Funcs) + NumThreads)   \* OrderedDict objects

(***************************************************************************)
(* state._memoize_cache maps a callable to its store, an OrderedDict       *)
(*     hash_value -> (ret, ts, count, time)                                *)
(* modelled as the sequence of its items in insertion order.               *)
(***************************************************************************)
VARIABLES
    wrappers,        \* wrapper -> its closure: func, max_items, policy, ttl
    lock,            \* wrapper -> thread holding its RLock, 0 when free
    memoize_cache,   \* state._memoize_cache: func -> store object, 0 = absent
    heap,            \* store object -> its items, in insertion order
    HASH_MAP,        \* _HASH_MAP: set of <<key, digest>>
    now,             \* the clock _TIME_FN reads
    invocations,     \* func -> number of times it was actually executed
    pc,              \* thread -> position in wrapped_func
    loc,             \* thread -> locals of its wrapped_func frame
    ncalls,          \* calls begun so far
    done,            \* the last completed call of a wrapped callable
    trace,           \* wrapper -> positional arguments of its completed calls
    hashed,          \* the completed direct calls of compute_hash, last two
    cleared,         \* <<func, args, kwargs>> dropped by clear_cache(), not called since
    current_stack,   \* state._current_stack: thread -> identities pushed, in order
    activations,     \* thread -> its active _generate_hash/_container_hash frames
    generated        \* the last completed top-level call of _generate_hash

hasher == <<current_stack, activations, generated>>
vars == <<wrappers, lock, memoize_cache, heap, HASH_MAP, now, invocations,
          pc, loc, ncalls, done, trace, hashed, cleared, hasher>>

Unwrapped == [func |-> "", hash_funcs |-> NoOverrides, max_items |-> NoneVal,
              policy |-> "", ttl |-> NoneVal]
NoRet == [f |-> "", args |-> <<>>, kw |-> <<>>, n |-> 0]
\* before is no local of the code: it records what the registered store of the
\* callable held when the call began.
IdleLoc == [w |-> "", args |-> <<>>, kwargs |-> <<>>, hash_value |-> <<>>,
            time |-> 0, func_cache |-> 0, ret |-> NoRet, before |-> <<>>]
NoCall == [w |-> "", func |-> "", args |-> <<>>, kwargs |-> <<>>, time |-> 0,
           kind |-> "none", exc |-> "", val |-> NoRet, invoked |-> FALSE]
NoGenerated == [obj |-> "", hash_funcs |-> {}, raised |-> FALSE, exc |-> "", out |-> ""]

(***************************************************************************)
(* hashlib.new("md5") ... hexdigest(): the digest of the bytes fed to the  *)
(* hasher.  MD5 is taken to be collision free, so a digest is identified   *)
(* with the sequence of chunks it was computed from.                       *)
(***************************************************************************)
md5_hexdigest(chunks) == <<"md5">> \o chunks

(***************************************************************************)
(* _key, for the two values compute_hash applies it to: the tuple of the   *)
(* positional arguments (whose items here are ints) and the dict of the    *)
(* keyword arguments.  _is_native_tuple asks every item to be a tuple      *)
(* itself, so a tuple is "native" only if no int sits anywhere in it: of   *)
(* the tuples here, only ().  A dict matches no branch of _key.            *)
(***************************************************************************)
_INDETERMINATE == [ind |-> TRUE, v |-> <<>>]
_is_native_tuple_int(i) == FALSE       \* isinstance(i, tuple), i an int
_is_native_tuple(args) == \A i \in 1..Len(args) : _is_native_tuple_int(args[i])
_key_args(args) ==
    IF _is_native_tuple(args) THEN [ind |-> FALSE, v |-> args] ELSE _INDETERMINATE
_key_kwargs(kwargs) == _INDETERMINATE

(***************************************************************************)
(* compute_hash(func, args.., kwargs..), given the memo; yields the outcome *)
(* and the memo afterwards.  With positional or keyword arguments present, *)
(* evaluating the operand hash_args (hash_kwargs) raises NameError before  *)
(* _generate_hash is entered.                                              *)
(***************************************************************************)
NameErrorInComputeHash(func, args, kwargs, memo) ==
    [raised |-> TRUE, exc |-> "NameError", digest |-> <<>>, memo |-> memo]

\* compute_hash without the test of line 246: the digest is recorded under
\* whatever key line 237 built.
compute_hash_memoizes_all(func, args, kwargs, memo) ==
    LET key == <<func, _key_args(args), _key_kwargs(kwargs)>>
        determinate == ~key[2].ind /\ ~key[3].ind
        hit == {m \in memo : m[1] = key}
        hash_value == md5_hexdigest(<<>>)
    IN  IF determinate /\ hit # {}
        THEN [raised |-> FALSE, exc |-> "",
              digest |-> (CHOOSE m \in hit : TRUE)[2], memo |-> memo]
        ELSE IF args # <<>> \/ kwargs # <<>>
        THEN NameErrorInComputeHash(func, args, kwargs, memo)
        ELSE [raised |-> FALSE, exc |-> "", digest |-> hash_value,
              memo |-> memo \cup {<<key, hash_value>>}]

compute_hash(func, args, kwargs, memo) ==
    LET key == <<func, _key_args(args), _key_kwargs(kwargs)>>
        determinate == ~key[2].ind /\ ~key[3].ind
        hit == {m \in memo : m[1] = key}
        hash_value == md5_hexdigest(<<>>)
    IN  IF determinate /\ hit # {}
        THEN [raised |-> FALSE, exc |-> "",
              digest |-> (CHOOSE m \in hit : TRUE)[2], memo |-> memo]
        ELSE IF args # <<>> \/ kwargs # <<>>
        THEN NameErrorInComputeHash(func, args, kwargs, memo)
        ELSE [raised |-> FALSE, exc |-> "", digest |-> hash_value,
              memo |-> IF determinate THEN memo \cup {<<key, hash_value>>} ELSE memo]

(***************************************************************************)
(* _cleanup_cache(cache, max_items, ttl, time): the loop condition         *)
(* len(func_cache) >= max_items reads the name func_cache, which is not    *)
(* bound in _cleanup_cache or in the module (the parameter is called       *)
(* cache, and receives the decorator).  The call raises NameError and      *)
(* leaves the store as it was; the eviction branches and the TTL sweep     *)
(* below the loop condition are never reached.                             *)
(***************************************************************************)
\* _cleanup_cache with the store bound to func_cache: while the store holds
\* max_items entries or more, the first key is deleted.
_cleanup_cache_evicts(store, max_items, ttl, time) ==
    [raised |-> FALSE, exc |-> "",
     store |-> IF Len(store) >= max_items
               THEN SubSeq(store, Len(store) - max_items + 2, Len(store))
               ELSE store]

_cleanup_cache(store, max_items, ttl, time) ==
    [raised |-> TRUE, exc |-> "NameError", store |-> store]

(***************************************************************************)
(* OrderedDict operations on a store.                                      *)
(***************************************************************************)
Keys(store) == {store[i].key : i \in 1..Len(store)}
Index(store, key) == CHOOSE i \in 1..Len(store) : store[i].key = key
GetItem(store, key) == store[Index(store, key)]
SetItem(store, key, ret, ts, count, time) ==
    LET e == [key |-> key, ret |-> ret, ts |-> ts, count |-> count, last |-> time]
    IN  IF key \in Keys(store)
        THEN [store EXCEPT ![Index(store, key)] = e]
        ELSE Append(store, e)

(***************************************************************************)
(* Store objects reachable from the registry or from a frame; the others   *)
(* are garbage and are returned to the empty state.                        *)
(***************************************************************************)
Live(reg, frames) ==
    {reg[f] : f \in Funcs} \cup {frames[t].func_cache : t \in Threads}
Collect(h, reg, frames) ==
    [s \in StoreIds |-> IF s \in Live(reg, frames) THEN h[s] ELSE <<>>]
FreshStore(reg, frames) ==
    CHOOSE s \in StoreIds : s \notin Live(reg, frames)
        /\ \A r \in StoreIds : r \notin Live(reg, frames) => s <= r

(***************************************************************************)
(* The structural hasher: _generate_hash and _container_hash.              *)
(*                                                                         *)
(* Values are objects with an identity.  i1 is the int 1 and sk the str    *)
(* "k", both shared wherever they occur; La is a list holding itself;      *)
(* Lb = [1, Lc] and Lc = [Lb] hold each other; D is the dict {"k": D},     *)
(* whose items() builds the tuple Dk = ("k", D) anew on every iteration.   *)
(* Bytes are strings, and feeding a hasher concatenates them.              *)
(***************************************************************************)
Objects == {"i1", "sk", "La", "Lb", "Lc", "D", "Dk"}
TypeOf(obj) ==
    CASE obj = "i1" -> "int"
      [] obj = "sk" -> "str"
      [] obj \in {"La", "Lb", "Lc"} -> "list"
      [] obj = "D" -> "dict"
      [] obj = "Dk" -> "tuple"
\* What _container_hash iterates over: obj.items() for a dict, obj otherwise.
Items(obj) ==
    CASE obj = "La" -> <<"La">>
      [] obj = "Lb" -> <<"i1", "Lc">>
      [] obj = "Lc" -> <<"Lb">>
      [] obj = "D" -> <<"Dk">>
      [] obj = "Dk" -> <<"sk", "D">>
      [] OTHER -> <<>>
\* Objects created during the hashing itself, a new one each time: no later
\* membership test of the stack can name them.
Fresh(obj) == obj = "Dk"
GenHashFuncs == {NoOverrides, RaisingOverride, {<<"builtins.list", "Lc">>}}

_CYCLE_PLACEHOLDER == "CYCLE"
_get_fqn(obj) == "builtins." \o TypeOf(obj)
_int_to_bytes(obj) == "01"                              \* the int 1, one byte
str_encode(obj) == "k"
md5_digest(bytes) == "md5(" \o bytes \o ")"

\* state._current_stack, read on thread t.  state.py is not among the
\* sources; by the specification the contexts are kept in a per-thread
\* registry, so that every read on a thread yields that thread's one stack.
_current_stack(t) == current_stack[t]

\* _Stack.__contains__ and _Stack.push, on the identities that persist.
InStack(stack, obj) == \E i \in 1..Len(stack) : stack[i] = obj
push(stack, obj) == IF Fresh(obj) THEN stack ELSE Append(stack, obj)

\* _generate_hash without the test of lines 146-147; the interpreter ends a
\* recursion that has grown past every object there is with RecursionError.
_generate_hash_no_cycle_test(stack, obj, hash_funcs) ==
    CASE Len(stack) > Cardinality(Objects) + 1 ->
           [kind |-> "raise", out |-> "RecursionError", stack |-> stack, obj |-> obj]
      [] TypeOf(obj) = "int" ->
           [kind |-> "value", out |-> _int_to_bytes(obj),
            stack |-> push(stack, obj), obj |-> obj]
      [] TypeOf(obj) = "str" ->
           [kind |-> "value", out |-> str_encode(obj),
            stack |-> push(stack, obj), obj |-> obj]
      [] OTHER ->
           [kind |-> "descend", out |-> "", stack |-> push(stack, obj), obj |-> obj]

\* _generate_hash(obj, hash_funcs) up to the point where it returns, raises
\* or enters _container_hash.  The stack is pushed and never popped: no path
\* through the function calls hash_stack.pop().  After an override the
\* output is hashed by _generate_hash(output), without the overrides.
RECURSIVE _generate_hash(_, _, _)
_generate_hash(stack, obj, hash_funcs) ==
    IF InStack(stack, obj)
    THEN [kind |-> "value", out |-> _CYCLE_PLACEHOLDER, stack |-> stack, obj |-> obj]
    ELSE LET over == {hf \in hash_funcs : hf[1] = _get_fqn(obj)}
             hash_func == CHOOSE hf \in over : TRUE
         IN  IF over # {}
             THEN IF hash_func[2] = "raise"
                  THEN [kind |-> "raise", out |-> _get_fqn(obj) \o ": OverrideError",
                        stack |-> push(stack, obj), obj |-> obj]
                  ELSE _generate_hash(push(stack, obj), hash_func[2], NoOverrides)
             ELSE CASE TypeOf(obj) = "int" ->
                         [kind |-> "value", out |-> _int_to_bytes(obj),
                          stack |-> push(stack, obj), obj |-> obj]
                    [] TypeOf(obj) = "str" ->
                         [kind |-> "value", out |-> str_encode(obj),
                          stack |-> push(stack, obj), obj |-> obj]
                    [] OTHER ->
                         [kind |-> "descend", out |-> "",
                          stack |-> push(stack, obj), obj |-> obj]

\* A frame of _container_hash(obj): the bytes fed to h so far, beginning with
\* _generate_hash of the type tag (a str made for the occasion), and the
\* position of the loop over the items; root and hash_funcs are those of the
\* top-level call the frame belongs to.
Frame(root, hash_funcs, obj) ==
    [root |-> root, hash_funcs |-> hash_funcs, obj |-> obj, i |-> 1,
     h |-> "__" \o TypeOf(obj)]

Init ==
    /\ wrappers = [w \in Wrappers |-> Unwrapped]
    /\ lock = [w \in Wrappers |-> 0]
    /\ memoize_cache = [f \in Funcs |-> 0]
    /\ heap = [s \in StoreIds |-> <<>>]
    /\ HASH_MAP = {}
    /\ now = 0
    /\ invocations = [f \in Funcs |-> 0]
    /\ pc = [t \in Threads |-> "idle"]
    /\ loc = [t \in Threads |-> IdleLoc]
    /\ ncalls = 0
    /\ trace = [w \in Wrappers |-> <<>>]
    /\ done = NoCall
    /\ hashed = <<>>
    /\ cleared = {}
    /\ current_stack = [t \in Threads |-> <<>>]
    /\ activations = [t \in Threads |-> <<>>]
    /\ generated = NoGenerated

(***************************************************************************)
(* Observation of completed calls.  done is the record of the last call of *)
(* a wrapped callable that returned or raised; trace[w] lists the          *)
(* positional arguments of the calls completed on w since the last         *)
(* clear_cache(), for as long as they follow one of the call sequences     *)
(* A,B,C / A,B,A,C / A,B,A,A,C and the underlying callable does not raise. *)
(***************************************************************************)
Scenarios == {<<ArgA, ArgB, ArgC>>, <<ArgA, ArgB, ArgA, ArgC>>,
              <<ArgA, ArgB, ArgA, ArgA, ArgC>>}
Off == <<<<0>>>>
IsPrefix(p, s) == Len(p) <= Len(s) /\ SubSeq(s, 1, Len(p)) = p
Track(tr, args, kwargs, exc) ==
    IF /\ tr # Off
       /\ kwargs = <<>>
       /\ exc # "FuncError"
       /\ \E s \in Scenarios : IsPrefix(Append(tr, args), s)
    THEN Append(tr, args)
    ELSE Off

Func(t) == wrappers[loc[t].w].func
MissTarget(t) ==                                   \* line 313
    IF wrappers[loc[t].w].max_items # NoneVal THEN "cleanup_lock" ELSE "invoke"

\* The call of thread t ends: it returns val (kind "return") or raises exc.
\* done.time is the time the call sampled, or the time it ended at when it
\* raised before line 303.
Finish(t, kind, exc, val, invoked, h, reg) ==
    LET frames == [loc EXCEPT ![t] = IdleLoc]
    IN  /\ pc' = [pc EXCEPT ![t] = "idle"]
        /\ loc' = frames
        /\ heap' = Collect(h, reg, frames)
        /\ done' = [w |-> loc[t].w, func |-> Func(t), args |-> loc[t].args,
                    kwargs |-> loc[t].kwargs,
                    time |-> IF pc[t] = "hash" THEN now ELSE loc[t].time, kind |-> kind,
                    exc |-> exc, val |-> val, invoked |-> invoked]
        /\ trace' = [trace EXCEPT ![loc[t].w] = Track(@, loc[t].args, loc[t].kwargs, exc)]
        /\ cleared' = cleared \ {<<Func(t), loc[t].args, loc[t].kwargs>>}

(***************************************************************************)
(* cache(func, hash_funcs, max_items, policy, ttl), and the factory form   *)
(* cache(hash_funcs=.., max_items=.., policy=.., ttl=..)(func), whose      *)
(* lambda passes func, hash_funcs, max_items and ttl on and leaves policy  *)
(* at its default.  w names the wrapped_func returned.  Nothing looks at   *)
(* the policy string here: whatever it is, the wrapper is built.           *)
(***************************************************************************)
cache(w, func, hash_funcs, max_items, policy, ttl, factory) ==
    /\ wrappers[w] = Unwrapped
    /\ wrappers' = [wrappers EXCEPT ![w] =
                      [func |-> func, hash_funcs |-> hash_funcs,
                       max_items |-> max_items,
                       policy |-> IF factory THEN "LRU" ELSE policy, ttl |-> ttl]]
    /\ UNCHANGED <<lock, memoize_cache, heap, HASH_MAP, now, invocations, pc, loc,
                   ncalls, done, trace, cleared, hashed, hasher>>

(***************************************************************************)
(* wrapped_func, one action per step between two accesses *)
(* to shared state.                                                        *)
(***************************************************************************)
\* Entry into wrapped_func (lines 289-291); args[0] is no Parameterized here.
Call(t, w, args, kwargs) ==
    /\ pc[t] = "idle"
    /\ wrappers[w] # Unwrapped
    /\ ncalls < MaxCalls
    /\ ncalls' = ncalls + 1
    /\ pc' = [pc EXCEPT ![t] = "hash"]
    /\ loc' = [loc EXCEPT ![t] =
                 [IdleLoc EXCEPT !.w = w, !.args = args, !.kwargs = kwargs,
                                 !.before = IF memoize_cache[wrappers[w].func] = 0
                                            THEN <<>>
                                            ELSE heap[memoize_cache[wrappers[w].func]]]]
    /\ UNCHANGED <<wrappers, lock, memoize_cache, heap, HASH_MAP, now, invocations,
                   done, trace, cleared, hashed, hasher>>

\* hash_value = compute_hash(func, ...); time = _TIME_FN()
Hash(t) ==
    /\ pc[t] = "hash"
    /\ LET h == compute_hash(Func(t), loc[t].args, loc[t].kwargs, HASH_MAP)
       IN  /\ HASH_MAP' = h.memo
           /\ IF h.raised
              THEN Finish(t, "raise", h.exc, NoRet, FALSE, heap, memoize_cache)
              ELSE /\ pc' = [pc EXCEPT ![t] = "get"]
                   /\ loc' = [loc EXCEPT ![t].hash_value = h.digest, ![t].time = now]
                   /\ UNCHANGED <<heap, done, trace, cleared>>
    /\ UNCHANGED <<wrappers, lock, memoize_cache, now, invocations, ncalls, hashed, hasher>>

\* Get with one registry entry for all callables: the store of whichever
\* callable has one.
GetAnyStore(t) ==
    /\ pc[t] = "get"
    /\ LET s == IF \E f \in Funcs : memoize_cache[f] # 0
                THEN memoize_cache[CHOOSE f \in Funcs : memoize_cache[f] # 0]
                ELSE 0
       IN  /\ loc' = [loc EXCEPT ![t].func_cache = s]
           /\ pc' = [pc EXCEPT ![t] = IF s = 0 THEN "create" ELSE "check"]
    /\ UNCHANGED <<wrappers, lock, memoize_cache, heap, HASH_MAP, now, invocations,
                   ncalls, done, trace, cleared, hashed, hasher>>

\* func_cache = state._memoize_cache.get(func); if func_cache is None:
Get(t) ==
    /\ pc[t] = "get"
    /\ loc' = [loc EXCEPT ![t].func_cache = memoize_cache[Func(t)]]
    /\ pc' = [pc EXCEPT ![t] = IF memoize_cache[Func(t)] = 0 THEN "create" ELSE "check"]
    /\ UNCHANGED <<wrappers, lock, memoize_cache, heap, HASH_MAP, now, invocations,
                   ncalls, done, trace, cleared, hashed, hasher>>

\* state._memoize_cache[func] = func_cache = collections.OrderedDict()
Create(t) ==
    /\ pc[t] = "create"
    /\ LET s == FreshStore(memoize_cache, loc)
           reg == [memoize_cache EXCEPT ![Func(t)] = s]
           frames == [loc EXCEPT ![t].func_cache = s]
       IN  /\ memoize_cache' = reg
           /\ loc' = frames
           /\ heap' = Collect([heap EXCEPT ![s] = <<>>], reg, frames)
    /\ pc' = [pc EXCEPT ![t] = MissTarget(t)]
    /\ UNCHANGED <<wrappers, lock, HASH_MAP, now, invocations, ncalls, done, trace, cleared,
                   hashed, hasher>>

\* Check with a test of the entry's age: an expired entry counts as absent.
CheckExpiring(t) ==
    /\ pc[t] = "check"
    /\ LET s == heap[loc[t].func_cache]
           k == loc[t].hash_value
           ttl == wrappers[loc[t].w].ttl
           present == /\ k \in Keys(s)
                      /\ (ttl = NoneVal \/ loc[t].time - GetItem(s, k).ts <= ttl)
       IN  pc' = [pc EXCEPT ![t] = IF present THEN "hit_lock" ELSE MissTarget(t)]
    /\ UNCHANGED <<wrappers, lock, memoize_cache, heap, HASH_MAP, now, invocations,
                   loc, ncalls, done, trace, cleared, hashed, hasher>>

\* elif hash_value in func_cache:
Check(t) ==
    /\ pc[t] = "check"
    /\ pc' = [pc EXCEPT ![t] = IF loc[t].hash_value \in Keys(heap[loc[t].func_cache])
                               THEN "hit_lock" ELSE MissTarget(t)]
    /\ UNCHANGED <<wrappers, lock, memoize_cache, heap, HASH_MAP, now, invocations,
                   loc, ncalls, done, trace, cleared, hashed, hasher>>

\* with lock: entering the block acquires the wrapper's RLock
Acquire(t) ==
    /\ pc[t] \in {"hit_lock", "cleanup_lock", "put_lock"}
    /\ lock[loc[t].w] \in {0, t}
    /\ lock' = [lock EXCEPT ![loc[t].w] = t]
    /\ pc' = [pc EXCEPT ![t] = CASE pc[t] = "hit_lock" -> "hit"
                                 [] pc[t] = "cleanup_lock" -> "cleanup"
                                 [] OTHER -> "put"]
    /\ UNCHANGED <<wrappers, memoize_cache, heap, HASH_MAP, now, invocations, loc,
                   ncalls, done, trace, cleared, hashed, hasher>>

\* Hit that rewrites the whole tuple from the current call, as an insertion
\* does: the entry's creation time becomes the time of the hit.
HitRefreshesCreated(t) ==
    /\ pc[t] = "hit"
    /\ lock' = [lock EXCEPT ![loc[t].w] = 0]
    /\ LET s == loc[t].func_cache
           k == loc[t].hash_value
       IN  IF k \notin Keys(heap[s])
           THEN Finish(t, "raise", "KeyError", NoRet, FALSE, heap, memoize_cache)
           ELSE LET e == GetItem(heap[s], k)
                IN  Finish(t, "return", "", e.ret, FALSE,
                           [heap EXCEPT ![s] = SetItem(@, k, e.ret, loc[t].time,
                                                       e.count + 1, loc[t].time)],
                           memoize_cache)
    /\ UNCHANGED <<wrappers, memoize_cache, HASH_MAP, now, invocations, ncalls, hashed, hasher>>

\* ret, ts, count, _ = func_cache[hash_value]
\* func_cache[hash_value] = (ret, ts, count+1, time); return ret
Hit(t) ==
    /\ pc[t] = "hit"
    /\ lock' = [lock EXCEPT ![loc[t].w] = 0]
    /\ LET s == loc[t].func_cache
           k == loc[t].hash_value
       IN  IF k \notin Keys(heap[s])
           THEN Finish(t, "raise", "KeyError", NoRet, FALSE, heap, memoize_cache)
           ELSE LET e == GetItem(heap[s], k)
                IN  Finish(t, "return", "", e.ret, FALSE,
                           [heap EXCEPT ![s] = SetItem(@, k, e.ret, e.ts, e.count + 1,
                                                       loc[t].time)],
                           memoize_cache)
    /\ UNCHANGED <<wrappers, memoize_cache, HASH_MAP, now, invocations, ncalls, hashed, hasher>>

\* with lock: _cleanup_cache(cache, max_items, ttl, time)
Cleanup(t) ==
    /\ pc[t] = "cleanup"
    /\ lock' = [lock EXCEPT ![loc[t].w] = 0]
    /\ LET s == loc[t].func_cache
           r == _cleanup_cache(heap[s], wrappers[loc[t].w].max_items,
                               wrappers[loc[t].w].ttl, loc[t].time)
       IN  IF r.raised
           THEN Finish(t, "raise", r.exc, NoRet, FALSE, [heap EXCEPT ![s] = r.store],
                       memoize_cache)
           ELSE /\ heap' = [heap EXCEPT ![s] = r.store]
                /\ pc' = [pc EXCEPT ![t] = "invoke"]
                /\ UNCHANGED <<loc, done, trace, cleared>>
    /\ UNCHANGED <<wrappers, memoize_cache, HASH_MAP, now, invocations, ncalls, hashed, hasher>>

\* ret = func(...), when func returns: the value names the
\* arguments it was computed for and the execution that computed it.
InvokeReturns(t) ==
    /\ pc[t] = "invoke"
    /\ invocations' = [invocations EXCEPT ![Func(t)] = @ + 1]
    /\ loc' = [loc EXCEPT ![t].ret = [f |-> Func(t), args |-> loc[t].args,
                                      kw |-> loc[t].kwargs,
                                      n |-> invocations[Func(t)] + 1]]
    /\ pc' = [pc EXCEPT ![t] = "put_lock"]
    /\ UNCHANGED <<wrappers, lock, memoize_cache, heap, HASH_MAP, now, ncalls, done,
                   trace, cleared, hashed, hasher>>

\* InvokeRaises with the store written although func raised.
InvokeRaisesCached(t) ==
    /\ pc[t] = "invoke"
    /\ invocations' = [invocations EXCEPT ![Func(t)] = @ + 1]
    /\ Finish(t, "raise", "FuncError", NoRet, TRUE,
              [heap EXCEPT ![loc[t].func_cache] =
                  SetItem(@, loc[t].hash_value, NoRet, loc[t].time, 0, loc[t].time)],
              memoize_cache)
    /\ UNCHANGED <<wrappers, lock, memoize_cache, HASH_MAP, now, ncalls, hashed, hasher>>

\* ret = func(...), when func raises: nothing catches it.
InvokeRaises(t) ==
    /\ pc[t] = "invoke"
    /\ invocations' = [invocations EXCEPT ![Func(t)] = @ + 1]
    /\ Finish(t, "raise", "FuncError", NoRet, TRUE, heap, memoize_cache)
    /\ UNCHANGED <<wrappers, lock, memoize_cache, HASH_MAP, now, ncalls, hashed, hasher>>

\* with lock: func_cache[hash_value] = (ret, time, 0, time); return ret
Put(t) ==
    /\ pc[t] = "put"
    /\ lock' = [lock EXCEPT ![loc[t].w] = 0]
    /\ Finish(t, "return", "", loc[t].ret, TRUE,
              [heap EXCEPT ![loc[t].func_cache] =
                  SetItem(@, loc[t].hash_value, loc[t].ret, loc[t].time, 0, loc[t].time)],
              memoize_cache)
    /\ UNCHANGED <<wrappers, memoize_cache, HASH_MAP, now, invocations, ncalls, hashed, hasher>>

\* What the registered stores hold: the calls clear_cache() makes forgotten.
Cached ==
    UNION {{<<f, heap[memoize_cache[f]][i].ret.args, heap[memoize_cache[f]][i].ret.kw>> :
               i \in 1..Len(heap[memoize_cache[f]])} :
           f \in {g \in Funcs : memoize_cache[g] # 0}}

\* clear_cache() that leaves the registry as it is.
clear_cache_keeps_stores ==
    /\ done' = NoCall
    /\ trace' = [w \in Wrappers |-> <<>>]
    /\ cleared' = cleared \cup Cached
    /\ UNCHANGED <<wrappers, lock, memoize_cache, heap, HASH_MAP, now, invocations,
                   pc, loc, ncalls, hashed, hasher>>

\* clear_cache(): state._memoize_cache.clear()
clear_cache ==
    /\ memoize_cache' = [f \in Funcs |-> 0]
    /\ heap' = Collect(heap, [f \in Funcs |-> 0], loc)
    /\ done' = NoCall
    /\ trace' = [w \in Wrappers |-> <<>>]
    /\ cleared' = cleared \cup Cached
    /\ UNCHANGED <<wrappers, lock, HASH_MAP, now, invocations, pc, loc, ncalls, hashed, hasher>>

\* The monotonic clock advances.
Tick ==
    /\ now < MaxTime
    /\ now' = now + 1
    /\ UNCHANGED <<wrappers, lock, memoize_cache, heap, HASH_MAP, invocations, pc, loc,
                   ncalls, done, trace, cleared, hashed, hasher>>

\* A direct call compute_hash(func, args.., kwargs..) of the public function.
ComputeHash(func, args, kwargs) ==
    /\ ncalls < MaxCalls
    /\ ncalls' = ncalls + 1
    /\ LET h == compute_hash(func, args, kwargs, HASH_MAP)
           r == [func |-> func, args |-> args, kwargs |-> kwargs, raised |-> h.raised,
                 exc |-> h.exc, digest |-> h.digest]
       IN  /\ HASH_MAP' = h.memo
           /\ hashed' = IF hashed = <<>> THEN <<r>> ELSE <<hashed[Len(hashed)], r>>
    /\ UNCHANGED <<wrappers, lock, memoize_cache, heap, now, invocations, pc, loc,
                   done, trace, cleared, hasher>>

\* A top-level call _generate_hash(obj, hash_funcs) on thread t.
GenerateHash(t, obj, hash_funcs) ==
    /\ activations[t] = <<>>
    /\ ncalls < MaxCalls
    /\ ncalls' = ncalls + 1
    /\ LET e == _generate_hash(_current_stack(t), obj, hash_funcs)
       IN  /\ current_stack' = [current_stack EXCEPT ![t] = e.stack]
           /\ IF e.kind = "descend"
              THEN /\ activations' = [activations EXCEPT ![t] = <<Frame(obj, hash_funcs, e.obj)>>]
                   /\ UNCHANGED generated
              ELSE /\ generated' = [obj |-> obj, hash_funcs |-> hash_funcs,
                                    raised |-> e.kind = "raise",
                                    exc |-> IF e.kind = "raise" THEN "ValueError" ELSE "",
                                    out |-> e.out]
                   /\ UNCHANGED activations
    /\ UNCHANGED <<wrappers, lock, memoize_cache, heap, HASH_MAP, now, invocations, pc,
                   loc, done, trace, hashed, cleared>>

\* One turn of the loop of _container_hash: h.update(_generate_hash(item)).
ContainerItem(t) ==
    /\ activations[t] # <<>>
    /\ LET n == Len(activations[t])
           f == activations[t][n]
       IN  /\ f.i <= Len(Items(f.obj))
           /\ LET e == _generate_hash(_current_stack(t), Items(f.obj)[f.i], NoOverrides)
              IN  /\ current_stack' = [current_stack EXCEPT ![t] = e.stack]
                  /\ activations' =
                       [activations EXCEPT ![t] =
                          IF e.kind = "descend"
                          THEN Append(@, Frame(f.root, f.hash_funcs, e.obj))
                          ELSE [@ EXCEPT ![n].h = @ \o e.out, ![n].i = @ + 1]]
    /\ UNCHANGED <<wrappers, lock, memoize_cache, heap, HASH_MAP, now, invocations, pc,
                   loc, ncalls, done, trace, hashed, cleared, generated>>

\* return h.digest(), to the _container_hash that asked or to the caller.
ContainerReturn(t) ==
    /\ activations[t] # <<>>
    /\ LET n == Len(activations[t])
           f == activations[t][n]
       IN  /\ f.i > Len(Items(f.obj))
           /\ IF n = 1
              THEN /\ activations' = [activations EXCEPT ![t] = <<>>]
                   /\ generated' = [obj |-> f.root, hash_funcs |-> f.hash_funcs,
                                    raised |-> FALSE,
                                    exc |-> "", out |-> md5_digest(f.h)]
              ELSE /\ activations' =
                        [activations EXCEPT ![t] =
                           [SubSeq(@, 1, n - 1) EXCEPT ![n - 1].h = @ \o md5_digest(f.h),
                                                       ![n - 1].i = @ + 1]]
                   /\ UNCHANGED generated
    /\ UNCHANGED <<wrappers, lock, memoize_cache, heap, HASH_MAP, now, invocations, pc,
                   loc, ncalls, done, trace, hashed, cleared, current_stack>>

Step(t) ==
    \/ Hash(t) \/ Get(t) \/ Create(t) \/ Check(t) \/ Acquire(t) \/ Hit(t)
    \/ Cleanup(t) \/ InvokeReturns(t) \/ InvokeRaises(t) \/ Put(t)

Wrap(ws, fs) ==
    \E w \in ws, func \in fs, hash_funcs \in HashFuncsVals,
       max_items \in MaxItemsVals, policy \in PolicyStrings, ttl \in TTLVals,
       factory \in BOOLEAN :
        cache(w, func, hash_funcs, max_items, policy, ttl, factory)

AllIdle == \A t \in Threads : pc[t] = "idle"

\* Threads call wrapped callables and clear_cache() concurrently.
Next ==
    \/ Wrap(Wrappers, Funcs)
    \/ \E t \in Threads, w \in Wrappers, c \in CallInputs : Call(t, w, c[1], c[2])
    \/ \E t \in Threads : Step(t)
    \/ clear_cache
    \/ Tick

Spec == Init /\ [][Next]_vars

\* One caller and one wrapped callable: a call runs to completion before the
\* next operation begins.
SeqNext ==
    \/ AllIdle /\ Wrap({"w1"}, {"f"})
    \/ AllIdle /\ \E c \in CallInputs : Call(1, "w1", c[1], c[2])
    \/ Step(1)
    \/ AllIdle /\ clear_cache
    \/ Tick

SeqSpec == Init /\ [][SeqNext]_vars

\* Threads call two wrapped callables concurrently, w1 over f and w2 over g,
\* with no arguments or with x=1; clear_cache() is called between calls.
ConcInputs == {<<<<>>, <<>>>>, <<<<>>, <<<<"x", 1>>>>>>}
ConcWrap(w, func) ==
    \E max_items \in {NoneVal, 1} :
        cache(w, func, NoOverrides, max_items, "LRU", NoneVal, FALSE)

ConcNext ==
    \/ ConcWrap("w1", "f")
    \/ ConcWrap("w2", "g")
    \/ \E t \in Threads, w \in Wrappers, c \in ConcInputs :
          ncalls < ConcCalls /\ Call(t, w, c[1], c[2])
    \/ \E t \in Threads : Step(t)
    \/ AllIdle /\ clear_cache

ConcSpec == Init /\ [][ConcNext]_vars

\* ConcSpec under fair scheduling: a thread that can take a step of its call
\* eventually takes one.
ConcFairSpec == ConcSpec /\ \A t \in Threads : WF_vars(Step(t))

\* Threads call two wrappers built over the same callable f: w1 = cache(f)
\* and w2 = cache(f), each with its own lock, both working on the store of f.
SharedNext ==
    \/ ConcWrap("w1", "f")
    \/ ConcWrap("w2", "f")
    \/ \E t \in Threads, w \in Wrappers, c \in ConcInputs :
          ncalls < ConcCalls /\ Call(t, w, c[1], c[2])
    \/ \E t \in Threads : Step(t)
    \/ AllIdle /\ clear_cache

SharedSpec == Init /\ [][SharedNext]_vars

\* Threads call two wrappers over f while the clock advances: w1 = cache(f)
\* and w2 = cache(f, max_items=1, ttl=TTL).
TimedWrap(w, max_items, ttl) == cache(w, "f", NoOverrides, max_items, "LRU", ttl, FALSE)

TimedNext ==
    \/ TimedWrap("w1", NoneVal, NoneVal)
    \/ TimedWrap("w2", 1, TTL)
    \/ \E t \in Threads, w \in Wrappers, c \in ConcInputs :
          ncalls < ConcCalls /\ Call(t, w, c[1], c[2])
    \/ \E t \in Threads : Step(t)
    \/ AllIdle /\ clear_cache
    \/ Tick

TimedSpec == Init /\ [][TimedNext]_vars

\* compute_hash applied to every callable and argument list of the inputs.
HashNext ==
    \E func \in Funcs, c \in CallInputs : ComputeHash(func, c[1], c[2])

HashSpec == Init /\ [][HashNext]_vars

\* One thread hashes values with _generate_hash, one call after the other.
GenNext ==
    \/ \E obj \in Objects \ {"Dk"}, hash_funcs \in GenHashFuncs :
          GenerateHash(1, obj, hash_funcs)
    \/ ContainerItem(1)
    \/ ContainerReturn(1)

GenSpec == Init /\ [][GenNext]_vars

\* The thread that hashes is scheduled: a call in progress takes its next step.
GenFairSpec == GenSpec /\ WF_vars(ContainerItem(1) \/ ContainerReturn(1))

(***************************************************************************)
(* Properties.                                                             *)
(***************************************************************************)
Store(f) == IF memoize_cache[f] = 0 THEN <<>> ELSE heap[memoize_cache[f]]
StoreAfter(f) == IF memoize_cache'[f] = 0 THEN <<>> ELSE heap'[memoize_cache'[f]]
StoredArgs(store) == {store[i].ret.args : i \in 1..Len(store)}
Returns(t) == pc[t] # "idle" /\ pc'[t] = "idle"     \* the call of t ends in this step
SameCall(t) ==                                       \* t repeats the last completed call
    done.w = loc[t].w /\ done.args = loc[t].args /\ done.kwargs = loc[t].kwargs
Absent(t) ==                                         \* no entry for the arguments of t
    \A i \in 1..Len(Store(Func(t))) :
        \/ Store(Func(t))[i].ret.args # loc[t].args
        \/ Store(Func(t))[i].ret.kw # loc[t].kwargs

\* C1: with no eviction, expiry or clear_cache() in between, the second of two
\* sequential calls of a wrapped callable with equal arguments does not invoke
\* the underlying callable and returns the value stored by the first, so that
\* the two calls invoke the callable exactly once.
C1_EqualArgsInvokeOnce ==
    [][\A t \in Threads :
          (Returns(t) /\ done.kind # "none" /\ done.exc # "FuncError" /\ SameCall(t))
          => /\ done.kind = "return"
             /\ done'.kind = "return"
             /\ ~done'.invoked
             /\ done'.val = done.val]_vars

\* C2: a call never returns a value computed for other arguments, and a call
\* whose arguments differ from those of every entry in the store is a miss
\* that invokes the underlying callable.
C2_DifferentArgsMiss ==
    [][\A t \in Threads :
          Returns(t)
          => /\ done'.kind = "return"
                => /\ done'.val.f = Func(t)
                   /\ done'.val.args = loc[t].args
                   /\ done'.val.kw = loc[t].kwargs
             /\ Absent(t) => done'.invoked]_vars

\* C3: any two compute_hash calls with the same callable and structurally
\* equal arguments built from primitives return the same digest.
C3_ComputeHashDeterministic ==
    \A i, j \in 1..Len(hashed) :
        (/\ i < j
         /\ hashed[i].func = hashed[j].func
         /\ hashed[i].args = hashed[j].args
         /\ hashed[i].kwargs = hashed[j].kwargs)
        => /\ ~hashed[i].raised
           /\ ~hashed[j].raised
           /\ hashed[i].digest = hashed[j].digest

\* The entry a policy is said to evict, as an index into the store.
MinBy(store, rank(_)) ==
    CHOOSE i \in 1..Len(store) :
        \A j \in 1..Len(store) :
            rank(store[i]) < rank(store[j]) \/ (rank(store[i]) = rank(store[j]) /\ i <= j)
Without(store, i) == SubSeq(store, 1, i - 1) \o SubSeq(store, i + 1, Len(store))
LastAccess(e) == e.last
HitCount(e) == e.count
\* An eviction: a cleanup of a wrapper with this policy and no ttl removes one entry.
Evicts(t, policy) ==
    /\ pc[t] = "cleanup"
    /\ wrappers[loc[t].w].policy = policy
    /\ wrappers[loc[t].w].ttl = NoneVal
    /\ Len(heap'[loc[t].func_cache]) = Len(heap[loc[t].func_cache]) - 1
\* After the calls sc on a wrapper with this policy and max_items = 2, whose
\* callable returned each time, the store holds the entries of exactly `left`.
Leaves(policy, sc, left) ==
    (/\ AllIdle
     /\ wrappers["w1"].policy = policy
     /\ wrappers["w1"].max_items = 2
     /\ wrappers["w1"].ttl = NoneVal
     /\ trace["w1"] = sc)
    => StoredArgs(Store(wrappers["w1"].func)) = left

\* C5: with policy LRU an eviction removes the entry least recently touched
\* (largest now - last_access_at), ties broken by earliest insertion; with
\* max_items = 2 the sequential calls A, B, A, C leave exactly {A, C}.
C5_LRU ==
    /\ [][\A t \in Threads :
            Evicts(t, "LRU")
            => heap'[loc[t].func_cache] =
                 Without(heap[loc[t].func_cache],
                         MinBy(heap[loc[t].func_cache], LastAccess))]_vars
    /\ [] Leaves("LRU", <<ArgA, ArgB, ArgA, ArgC>>, {ArgA, ArgC})

\* C6: with policy FIFO an eviction removes the earliest-inserted entry still
\* present, whatever the hits in between; with max_items = 2 the sequential
\* calls A, B, C leave exactly {B, C}.
C6_FIFO ==
    /\ [][\A t \in Threads :
            Evicts(t, "FIFO")
            => heap'[loc[t].func_cache] = Tail(heap[loc[t].func_cache])]_vars
    /\ [] Leaves("FIFO", <<ArgA, ArgB, ArgC>>, {ArgB, ArgC})

\* C7: with policy LFU an eviction removes the entry with the smallest
\* hit_count, ties broken by earliest insertion; with max_items = 2 the
\* sequential calls A, B, A, A, C leave exactly {A, C}.
C7_LFU ==
    /\ [][\A t \in Threads :
            Evicts(t, "LFU")
            => heap'[loc[t].func_cache] =
                 Without(heap[loc[t].func_cache],
                         MinBy(heap[loc[t].func_cache], HitCount))]_vars
    /\ [] Leaves("LFU", <<ArgA, ArgB, ArgA, ArgA, ArgC>>, {ArgA, ArgC})

\* A put: the call of t, a miss whose callable raised nothing, ends.
PutBy(t) == Returns(t) /\ Absent(t) /\ done'.exc # "FuncError"

\* C8: with ttl = T, an entry created at t0 is returned by a call at any time
\* t < t0 + T, and is no longer in the store after the first put (a miss on
\* any key) issued at a time t >= t0 + T, t = t0 + T included.
C8_TTLExpiry ==
    [][\A t \in Threads :
          (pc[t] # "idle" /\ wrappers[loc[t].w].ttl # NoneVal)
          => /\ \A i \in 1..Len(Store(Func(t))) :
                  LET e == Store(Func(t))[i]
                  IN  (/\ Returns(t)
                       /\ e.ret.args = loc[t].args
                       /\ e.ret.kw = loc[t].kwargs
                       /\ done'.time < e.ts + wrappers[loc[t].w].ttl)
                      => done'.kind = "return" /\ done'.val = e.ret /\ ~done'.invoked
             /\ PutBy(t)
                => \A i \in 1..Len(StoreAfter(Func(t))) :
                      done'.time < StoreAfter(Func(t))[i].ts + wrappers[loc[t].w].ttl]_vars

\* C9: with ttl set and max_items None every put removes all entries whose
\* age exceeds ttl; with max_items set and ttl None no entry is removed
\* because of its age (a put removes an entry only from a full store).
C9_SweepIndependentOfSize ==
    [][\A t \in Threads :
          /\ (/\ pc[t] # "idle"
              /\ wrappers[loc[t].w].ttl # NoneVal
              /\ wrappers[loc[t].w].max_items = NoneVal
              /\ PutBy(t))
             => \A i \in 1..Len(StoreAfter(Func(t))) :
                   done'.time - StoreAfter(Func(t))[i].ts <= wrappers[loc[t].w].ttl
          /\ (/\ pc[t] = "cleanup"
              /\ wrappers[loc[t].w].ttl = NoneVal
              /\ wrappers[loc[t].w].max_items # NoneVal
              /\ Len(heap[loc[t].func_cache]) < wrappers[loc[t].w].max_items)
             => Keys(heap[loc[t].func_cache]) \subseteq Keys(heap'[loc[t].func_cache])]_vars

\* C10: if the wrapped callable raises, the exception reaches the caller and
\* no entry is created for the key of that call; the next call with the same
\* arguments is a miss and invokes the callable again.
C10_RaiseNotCached ==
    [][\A t \in Threads :
          /\ (pc[t] = "invoke" /\ pc'[t] = "idle")
             => /\ done'.kind = "raise"
                /\ done'.exc = "FuncError"
                /\ loc[t].hash_value \notin Keys(StoreAfter(Func(t)))
          /\ (Returns(t) /\ done.exc = "FuncError" /\ SameCall(t))
             => done'.invoked]_vars

\* C10, reached: after a call whose callable raised, the same call has been
\* made again and has executed the callable anew.
C10_Witness ==
    \E t \in Threads :
        /\ done.exc = "FuncError"
        /\ pc[t] = "put_lock"
        /\ SameCall(t)
        /\ loc[t].ret.n = 2

lower(policy) ==
    CASE policy = "FIFO" -> "fifo"
      [] policy = "LRU" -> "lru"
      [] policy = "LFU" -> "lfu"
      [] policy = "MRU" -> "mru"
      [] OTHER -> policy
Recognized(policy) == lower(policy) \in {"fifo", "lru", "lfu"}

C13_UnknownPolicyFailsAtWrap ==
    [][\A w \in Wrappers, func \in Funcs, hash_funcs \in HashFuncsVals,
          max_items \in MaxItemsVals, policy \in PolicyStrings, ttl \in TTLVals,
          factory \in BOOLEAN :
          ~Recognized(policy)
          => ~cache(w, func, hash_funcs, max_items, policy, ttl, factory)]_vars

\* The call of t passes a value of a type for which the wrapper has an
\* override that raises (the arguments here are ints).
OverrideRaises(t) ==
    /\ \E hf \in wrappers[loc[t].w].hash_funcs : hf = <<"builtins.int", "raise">>
    /\ (loc[t].args # <<>> \/ loc[t].kwargs # <<>>)

\* C14: if a user-supplied hash override raises while the key of a call is
\* computed, the call fails with a hashing failure (ValueError) naming the
\* offending type and the underlying error, the wrapped callable is not
\* invoked, and the store is left unchanged.
C14_OverrideFailureIsHashingFailure ==
    [][\A t \in Threads :
          (Returns(t) /\ OverrideRaises(t))
          => /\ done'.kind = "raise"
             /\ done'.exc = "ValueError"
             /\ ~done'.invoked
             /\ memoize_cache' = memoize_cache
             /\ StoreAfter(Func(t)) = Store(Func(t))]_vars

\* The objects of the value graph of obj: obj and what its items lead to.
RECURSIVE ReachFrom(_, _)
ReachFrom(objs, n) ==
    IF n = 0 THEN objs
    ELSE ReachFrom(objs \cup UNION {{Items(o)[i] : i \in 1..Len(Items(o))} : o \in objs},
                   n - 1)
Reach(obj) == ReachFrom({obj}, Cardinality(Objects))
SelfReferential(obj) ==
    obj \in UNION {Reach(Items(obj)[i]) : i \in 1..Len(Items(obj))}

\* C15: hashing a self-referential container (a list or dict that contains
\* itself, directly or through other containers) terminates and returns bytes
\* without raising, and the depth of the recursion never exceeds the number
\* of distinct objects in the value graph.
C15_CycleTermination ==
    /\ [](\A t \in Threads :
            activations[t] # <<>>
            => Len(activations[t]) <= Cardinality(Reach(activations[t][1].obj)))
    /\ []((generated.obj # "" /\ SelfReferential(generated.obj))
          => (~generated.raised /\ generated.out # ""))
    /\ \A t \in Threads : (activations[t] # <<>>) ~> (activations[t] = <<>>)

\* C15, reached: the list Lb, which holds itself through Lc, has been hashed
\* to a digest into which the placeholder went where the cycle closed.
C15_Witness ==
    /\ generated.obj = "Lb"
    /\ generated.hash_funcs = NoOverrides
    /\ ~generated.raised
    /\ generated.out = md5_digest("__list" \o _int_to_bytes("i1")
                                  \o md5_digest("__list" \o _CYCLE_PLACEHOLDER))

\* C16: when two concurrent callers both miss on the same key, both execute
\* the underlying callable and both write their result, and the store then
\* holds exactly one entry for that key, whose value is that of the later
\* write: a caller that writes after another caller of the same call did
\* leaves its own value in the callable's store.
C16_ConcurrentMissesLastWriteWins ==
    [][\A t \in Threads :
          (/\ pc[t] = "put"
           /\ pc'[t] = "idle"
           /\ done.kind = "return"
           /\ done.invoked
           /\ SameCall(t))
          => /\ loc[t].ret.n # done.val.n
             /\ Cardinality({i \in 1..Len(StoreAfter(Func(t))) :
                               StoreAfter(Func(t))[i].key = loc[t].hash_value}) = 1
             /\ \A i \in 1..Len(StoreAfter(Func(t))) :
                   StoreAfter(Func(t))[i].key = loc[t].hash_value
                   => StoreAfter(Func(t))[i].ret = loc[t].ret]_vars

\* The entry of the registered store of t's callable for the arguments of t
\* is older than the wrapper's ttl at the time t sampled.
Expired(t, e) ==
    /\ wrappers[loc[t].w].ttl # NoneVal
    /\ e.ret.args = loc[t].args
    /\ e.ret.kw = loc[t].kwargs
    /\ loc[t].time - e.ts > wrappers[loc[t].w].ttl

\* C17: expiration is lazy.  A call whose key has an entry older than ttl is
\* a hit: it returns the stored value and does not invoke the callable; and
\* an entry leaves a registered store only in the cleanup of a put or by
\* clear_cache().
C17_LazyExpiration ==
    [][/\ \A t \in Threads :
            (pc[t] \notin {"idle", "hash"} /\ pc'[t] = "idle")
            => \A i \in 1..Len(Store(Func(t))) :
                  Expired(t, Store(Func(t))[i])
                  => /\ done'.kind = "return"
                     /\ done'.val = Store(Func(t))[i].ret
                     /\ ~done'.invoked
       /\ \A f \in Funcs :
            ~(Keys(Store(f)) \subseteq Keys(StoreAfter(f)))
            => \/ memoize_cache'[f] = 0 /\ pc' = pc
               \/ \E t \in Threads : pc[t] = "cleanup" /\ Func(t) = f]_vars

\* C17, reached: a call has returned, without invoking the callable, the
\* value of an entry that was older than ttl when the call sampled the time.
C17_Witness ==
    /\ done.kind = "return"
    /\ ~done.invoked
    /\ wrappers[done.w].ttl # NoneVal
    /\ \E i \in 1..Len(Store(done.func)) :
          /\ Store(done.func)[i].ret = done.val
          /\ done.time - Store(done.func)[i].ts > wrappers[done.w].ttl

\* C18: stores of different callables are independent.  A step of a call to
\* one wrapped callable leaves the registry entry and the store of every
\* other callable as they were, the store a call works on is never the
\* store of another callable, and a call returns a value computed by its own
\* callable, also when both callables are called with equal arguments.
C18_StoresIndependent ==
    /\ [][\A t \in Threads :
            (pc[t] # "idle" /\ pc'[t] # pc[t])
            => \A f \in Funcs \ {Func(t)} :
                  memoize_cache'[f] = memoize_cache[f] /\ StoreAfter(f) = Store(f)]_vars
    /\ [](\A t \in Threads :
            pc[t] # "idle"
            => \A f \in Funcs \ {Func(t)} :
                  memoize_cache[f] # 0 => loc[t].func_cache # memoize_cache[f])
    /\ [](done.kind = "return" => done.val.f = done.func)

\* C18, reached: both callables have an entry for the call without arguments,
\* each with the value its own callable computed, and the last call was a hit.
C18_Witness ==
    /\ Store("f") # <<>>
    /\ Store("g") # <<>>
    /\ Store("f")[1].key = Store("g")[1].key
    /\ Store("f")[1].ret.f = "f"
    /\ Store("g")[1].ret.f = "g"
    /\ done.kind = "return"
    /\ ~done.invoked

InSection(t) == pc[t] \in {"hit", "cleanup", "put"}

\* C22: mutual exclusion on store mutation.  No two threads are inside a
\* section that mutates the same store at the same time, whatever wrappers
\* over the underlying callable they call through.
C22_StoreMutualExclusion ==
    \A t, u \in Threads :
        (t # u /\ InSection(t) /\ InSection(u))
        => loc[t].func_cache # loc[u].func_cache

\* C23: a miss evicts exactly one entry when the store holds max_items
\* entries or more before the insertion, and none otherwise, also when calls
\* run concurrently.  The cleanup of a miss (lines 313-315) on the registered
\* store of its callable removes one key if the store is at the bound and no
\* key if it is below, and the insertion itself (lines 318-319) removes none.
C23_PutEvictsExactlyOne ==
    [][\A t \in Threads :
          /\ (/\ pc[t] = "cleanup"
              /\ pc'[t] # "cleanup"
              /\ loc[t].func_cache = memoize_cache[Func(t)])
             => Cardinality(Keys(Store(Func(t))) \ Keys(StoreAfter(Func(t))))
                  = IF Len(Store(Func(t))) >= wrappers[loc[t].w].max_items THEN 1 ELSE 0
          /\ (/\ pc[t] = "put"
              /\ pc'[t] = "idle"
              /\ loc[t].func_cache = memoize_cache[Func(t)])
             => Keys(Store(Func(t))) \subseteq Keys(StoreAfter(Func(t)))]_vars

\* The values whose hashing is in progress on thread t: the top-level value
\* and the containers _container_hash is iterating over.
Ancestors(t) ==
    {activations[t][k].obj : k \in 1..Len(activations[t])}
        \cup {activations[t][k].root : k \in 1..Len(activations[t])}

\* C24: the cycle-detection context is call-scoped.  It is empty whenever no
\* top-level hashing call is in progress (when one starts and when it has
\* returned), it holds only values that are ancestors currently being hashed
\* in the same call, and a top-level call, whose value has no ancestor, never
\* returns the cycle placeholder: a value hashed by an earlier call is hashed
\* in full again.
C24_CycleContextCallScoped ==
    \A t \in Threads :
        /\ activations[t] = <<>> => current_stack[t] = <<>>
        /\ \A i \in 1..Len(current_stack[t]) : current_stack[t][i] \in Ancestors(t)
        /\ (generated.obj # "" /\ ~generated.raised)
              => generated.out # _CYCLE_PLACEHOLDER

\* C25: for a call whose positional and keyword arguments are all native
\* primitives (every call of the inputs: ints, and the keyword x=1),
\* compute_hash returns a digest and records it in the memo under the
\* callable and the argument values, and a later compute_hash with the same
\* callable and equal arguments returns the memoized digest.
C25_NativeArgsMemoized ==
    /\ \A i \in 1..Len(hashed) :
          /\ ~hashed[i].raised
          /\ \E m \in HASH_MAP :
                /\ m[1] = <<hashed[i].func, [ind |-> FALSE, v |-> hashed[i].args],
                            [ind |-> FALSE, v |-> hashed[i].kwargs]>>
                /\ m[2] = hashed[i].digest
    /\ \A m, n \in HASH_MAP : m[1] = n[1] => m[2] = n[2]

\* C26: in every reachable state no key of the memo contains the
\* indeterminate sentinel, and a compute_hash call whose positional or
\* keyword key-hint is indeterminate leaves the memo as it found it.
C26_MemoKeysDeterminate ==
    /\ [](\A m \in HASH_MAP : ~m[1][2].ind /\ ~m[1][3].ind)
    /\ [][\A func \in Funcs, c \in CallInputs :
            (/\ ComputeHash(func, c[1], c[2])
             /\ (_key_args(c[1]).ind \/ _key_kwargs(c[2]).ind))
            => HASH_MAP' = HASH_MAP]_vars

\* C26, reached: a compute_hash call whose key-hint is indeterminate has
\* returned a digest, and the memo holds nothing.
C26_Witness ==
    /\ hashed # <<>>
    /\ ~hashed[Len(hashed)].raised
    /\ _key_kwargs(hashed[Len(hashed)].kwargs).ind
    /\ HASH_MAP = {}

\* C27: a hit changes only the hit entry's last access time, set to the
\* time the call sampled, and its hit count, incremented by exactly 1.  The
\* entry's value, creation time and position, and every other entry, are as
\* before, and no entry is added or removed.
C27_HitFrame ==
    [][\A t \in Threads :
          (pc[t] = "hit" /\ pc'[t] = "idle")
          => LET s == Store(Func(t))
                 a == StoreAfter(Func(t))
             IN  /\ loc[t].func_cache = memoize_cache[Func(t)]
                 /\ memoize_cache' = memoize_cache
                 /\ Len(a) = Len(s)
                 /\ \A i \in 1..Len(s) :
                       IF s[i].key = loc[t].hash_value
                       THEN a[i] = [s[i] EXCEPT !.last = loc[t].time, !.count = @ + 1]
                       ELSE a[i] = s[i]
                 /\ \A f \in Funcs \ {Func(t)} : StoreAfter(f) = Store(f)]_vars

\* C27, reached: an entry has been hit at a time later than its creation,
\* and holds the callable's value, its creation time, the later access time
\* and a hit count of one.
C27_Witness ==
    /\ done.kind = "return"
    /\ ~done.invoked
    /\ \E i \in 1..Len(Store(done.func)) :
          /\ Store(done.func)[i].ret = done.val
          /\ Store(done.func)[i].count = 1
          /\ Store(done.func)[i].last = done.time
          /\ Store(done.func)[i].ts < done.time

\* C28: a miss inserts an entry with hit count 0 whose creation time and
\* last access time are both the time at which the entry is inserted, the
\* time of the put after the underlying callable has returned, so that a
\* freshly inserted entry has age 0.
C28_PutStampsInsertionTime ==
    [][\A t \in Threads :
          (pc[t] = "put" /\ pc'[t] = "idle")
          => /\ loc[t].hash_value \in Keys(StoreAfter(Func(t)))
             /\ LET e == GetItem(StoreAfter(Func(t)), loc[t].hash_value)
                IN  /\ e.ret = loc[t].ret
                    /\ e.count = 0
                    /\ e.ts = now
                    /\ e.last = now
                    /\ now - e.ts = 0]_vars

\* C29: a call whose wrapped callable raises leaves the callable's store
\* exactly as it was before the call: when the call ends with the callable's
\* exception, the registered store holds the entries it held when the call
\* began, each with the same value, times and hit count, in the same order.
C29_RaiseLeavesStore ==
    [][\A t \in Threads :
          (Returns(t) /\ done'.exc = "FuncError")
          => /\ done'.invoked
             /\ StoreAfter(Func(t)) = loc[t].before]_vars

\* C29, reached: a call has ended with the callable's exception after
\* registering the store of its callable, and the store holds what it held
\* when the call began.
C29_Witness ==
    /\ done.kind = "raise"
    /\ done.exc = "FuncError"
    /\ done.invoked
    /\ memoize_cache[done.func] # 0
    /\ Store(done.func) = <<>>
    /\ invocations[done.func] >= 2

\* Every wrapper built over f has max_items = None and ttl = None.
Unbounded(f) ==
    \A w \in Wrappers :
        wrappers[w].func = f
        => wrappers[w].max_items = NoneVal /\ wrappers[w].ttl = NoneVal

\* C30: entries leave a store only by policy eviction, TTL sweep or
\* clear_cache().  For a callable wrapped with max_items = None and
\* ttl = None, no step of a call removes a key from the callable's store:
\* between two clear_cache() the set of cached keys only grows.
C30_KeysOnlyGrow ==
    [][\A f \in Funcs :
          (/\ Unbounded(f)
           /\ \E t \in Threads : pc'[t] # pc[t])
          => Keys(Store(f)) \subseteq Keys(StoreAfter(f))]_vars

\* The overrides of hash_funcs registered for the type of obj.
Overrides(hash_funcs, obj) == {hf \in hash_funcs : hf[1] = _get_fqn(obj)}

\* C31: a user-supplied override registered for a type is applied, ahead of
\* the built-in rule, to every value of that type reached while hashing,
\* values nested inside containers included.  When _container_hash hashes an
\* item that is not an ancestor in progress and whose type has an override
\* among the hash_funcs of the top-level call, the outcome is that of
\* _generate_hash with those overrides: a raising override ends the call
\* with the hashing failure, and one that returns feeds the hash of its
\* output.
C31_OverrideAppliesToNested ==
    [][\A t \in Threads :
          (/\ activations[t] # <<>>
           /\ current_stack'[t] # current_stack[t] \/ activations'[t] # activations[t])
          => LET n == Len(activations[t])
                 f == activations[t][n]
                 item == Items(f.obj)[f.i]
                 e == _generate_hash(current_stack[t], item, f.hash_funcs)
             IN  (/\ f.i <= Len(Items(f.obj))
                  /\ ~InStack(current_stack[t], item)
                  /\ Overrides(f.hash_funcs, item) # {})
                 => /\ e.kind = "raise"
                       => /\ activations'[t] = <<>>
                          /\ generated'.raised
                          /\ generated'.exc = "ValueError"
                    /\ e.kind = "value"
                       => /\ Len(activations'[t]) = n
                          /\ activations'[t][n].h = f.h \o e.out
                    /\ e.kind = "descend"
                       => /\ Len(activations'[t]) = n + 1
                          /\ activations'[t][n + 1].obj = e.obj]_vars

\* Thread t waits at a with-lock statement for a lock another thread holds.
Blocked(t) ==
    /\ pc[t] \in {"hit_lock", "cleanup_lock", "put_lock"}
    /\ lock[loc[t].w] \notin {0, t}

\* Every call that has begun comes to an end.
CallsTerminate == \A t \in Threads : (pc[t] # "idle") ~> (pc[t] = "idle")
\* A call ends by raising only when the underlying callable raised.
CallsReturn == [](done.kind = "raise" => done.exc = "FuncError")
\* Some thread is always able to go on.
NeverAllBlocked == [](\E t \in Threads : ~Blocked(t))
\* The underlying callable runs with no lock held by its thread.
NoLockWhileCallableRuns ==
    [](\A t \in Threads : pc[t] = "invoke" => \A w \in Wrappers : lock[w] # t)

\* C32: liveness and deadlock freedom.  Under fair scheduling every call of a
\* wrapped callable whose underlying callable returns eventually returns,
\* also when calls and clear_cache() interleave; in no reachable state is
\* every thread blocked on a lock; and no thread holds a lock while the
\* underlying callable runs.
C32_CallsReturnNoDeadlock ==
    /\ CallsTerminate
    /\ CallsReturn
    /\ NeverAllBlocked
    /\ NoLockWhileCallableRuns

\* C33: lazy store creation is safe under concurrency.  When a miss
\* completes, the store it writes to is the one registered for its callable,
\* and the registered store holds the entry it wrote: no completed miss
\* leaves its entry in an orphaned store.
C33_MissWritesRegisteredStore ==
    [][\A t \in Threads :
          (pc[t] = "put" /\ pc'[t] = "idle")
          => /\ memoize_cache[Func(t)] = loc[t].func_cache
             /\ memoize_cache'[Func(t)] = loc[t].func_cache
             /\ \E i \in 1..Len(StoreAfter(Func(t))) :
                   /\ StoreAfter(Func(t))[i].key = loc[t].hash_value
                   /\ StoreAfter(Func(t))[i].ret = loc[t].ret]_vars

\* C34: timestamp invariant.  In every reachable state every entry of every
\* store has created_at <= last_access_at, and under any interleaving the
\* last access time of an entry never decreases while the entry lives (same
\* key, value and creation time before and after the step).
C34_TimestampsOrdered ==
    /\ [](\A s \in StoreIds : \A i \in 1..Len(heap[s]) : heap[s][i].ts <= heap[s][i].last)
    /\ [][\A s \in StoreIds : \A i \in 1..Len(heap[s]) :
            (/\ i <= Len(heap'[s])
             /\ heap'[s][i].key = heap[s][i].key
             /\ heap'[s][i].ret = heap[s][i].ret
             /\ heap'[s][i].ts = heap[s][i].ts)
            => heap'[s][i].last >= heap[s][i].last]_vars

\* What the TTL sweep leaves of a store: the entries not older than ttl.
Swept(store, ttl, time) == SelectSeq(store, LAMBDA e : time - e.ts <= ttl)

\* C35: within one put, policy eviction runs before the TTL sweep and does
\* not prefer expired entries.  When the cleanup of a miss (LRU here) runs on
\* a registered store that is full and holds an expired entry, the victim is
\* the least recently used of all entries, and what is left afterwards is
\* the store without the victim and without any expired entry.
C35_EvictThenSweep ==
    [][\A t \in Threads :
          (/\ pc[t] = "cleanup"
           /\ pc'[t] # "cleanup"
           /\ loc[t].func_cache = memoize_cache[Func(t)]
           /\ wrappers[loc[t].w].ttl # NoneVal
           /\ Len(Store(Func(t))) >= wrappers[loc[t].w].max_items
           /\ \E i \in 1..Len(Store(Func(t))) :
                 loc[t].time - Store(Func(t))[i].ts > wrappers[loc[t].w].ttl)
          => StoreAfter(Func(t))
               = Swept(Without(Store(Func(t)), MinBy(Store(Func(t)), LastAccess)),
                       wrappers[loc[t].w].ttl, loc[t].time)]_vars

====
